---- MODULE Spec2Model ----
(***************************************************************************)
(* Model of theano/tensor/nnet/ctc_wrapper.c: the CPU wrapper around the   *)
(* warp-ctc library.  One call of APPLY_SPECIFIC(ctc_cost_cpu) is a        *)
(* sequential process; pc is its position between the stages of the call.  *)
(* Every malloc / numpy allocation may fail, every library call may return *)
(* a non-success status.                                                   *)
(***************************************************************************)
EXTENDS Integers, Sequences, FiniteSets, TLC

(* ---------------------------- bounds ----------------------------------- *)
\* largest extent of a dimension of the activations and of an output array
MaxDim == 2
\* largest number of cells (rows * cols) of the label matrix
MaxCells == 4
\* label values range over -(MaxLabel + 1) .. MaxLabel, below and above zero
MaxLabel == 1
\* largest workspace size the library answers
MaxWorkspace == 1
\* largest value of a field of the uninitialised options of the context
MaxGarbage == 1

(* ---------------------------- values ----------------------------------- *)
NULL == "NULL"
CTC_CPU == "CTC_CPU"
CTC_GPU == "CTC_GPU"
CTC_STATUS_SUCCESS == "CTC_STATUS_SUCCESS"
CTC_STATUS_INVALID_VALUE == "CTC_STATUS_INVALID_VALUE"
CTC_STATUS_EXECUTION_FAILED == "CTC_STATUS_EXECUTION_FAILED"
Statuses == {CTC_STATUS_SUCCESS, CTC_STATUS_INVALID_VALUE, CTC_STATUS_EXECUTION_FAILED}

NoError == "none"
MemoryError == "MemoryError"
RuntimeError == "RuntimeError"

\* the buffers a ctc_context_t points to, and the context record itself
Owned == {"workspace", "input_lengths", "flat_labels", "label_lengths", "activations_copy"}
Blocks == Owned \cup {"context"}

LabelVals == (0 - (MaxLabel + 1)) .. MaxLabel
Dims == 1 .. MaxDim

\* struct ctcOptions: the fields of the library's option record
OptionValues ==
    [loc : {CTC_CPU, CTC_GPU}, num_threads : 0 .. MaxGarbage, blank_label : 0 .. MaxGarbage]

\* a 2-D integer array: rows, cols and the element at (row, col), 0-based
LabelMatrices ==
    UNION { { [rows |-> rc[1], cols |-> rc[2], at |-> f] :
                f \in [ (0 .. rc[1] - 1) \X (0 .. rc[2] - 1) -> LabelVals ] }
            : rc \in { x \in (0 .. MaxCells) \X (0 .. MaxCells) : x[1] * x[2] <= MaxCells } }

\* a numpy array handle: NULL, or an array with an identity and a shape
NullArray == [id |-> NULL, shape |-> << >>, zeros |-> FALSE]
CallerArray(shape) == [id |-> "caller", shape |-> shape, zeros |-> FALSE]
Shapes(lo, hi) == UNION { [1 .. n -> Dims] : n \in lo .. hi }

VARIABLES
    pc,             \* position of the call in ctc_cost_cpu
    args,           \* the arguments the call was made with
    uninit,         \* the indeterminate bytes malloc hands back for the context
    context,        \* the fields of *context
    heap,           \* state of each block: "unallocated", "live" or "freed"
    frees,          \* how many times each block was released
    mem,            \* contents of the owned buffers
    locals,         \* local variables of ctc_cost_cpu
    out_costs,      \* *out_costs
    out_gradients,  \* *out_gradients
    released,       \* output handles whose old array was Py_XDECREF'ed
    err,            \* the Python error indicator
    ret,            \* the value returned, -1 while the call runs
    trace,          \* the stages and cleanups executed so far, in order
    libcalls,       \* the calls made to the library, in order
    failed          \* the stage that failed, or "none"

vars == <<pc, args, uninit, context, heap, frees, mem, locals, out_costs,
          out_gradients, released, err, ret, trace, libcalls, failed>>

(* ---------------------------- support code ----------------------------- *)
\* free(p) on the pair hf = [heap, frees]; free(NULL) does nothing
Free(hf, p) ==
    IF p = NULL THEN hf
    ELSE [heap |-> [hf.heap EXCEPT ![p] = "freed"],
          frees |-> [hf.frees EXCEPT ![p] = @ + 1]]

\* ctc_context_init: configures a local copy of the options, which is
\* dropped when the function returns, and clears the pointers of *context
ctc_context_init(c) ==
    LET options == [[f \in DOMAIN c.options |-> 0]
                        EXCEPT !.loc = CTC_CPU, !.num_threads = 1]
    IN  [c EXCEPT !.workspace = NULL,
                  !.input_lengths = NULL,
                  !.flat_labels = NULL,
                  !.label_lengths = NULL,
                  !.activations_copy = NULL]

\* variant of ctc_context_destroy that forgets the Py_XDECREF of line 40
ctc_context_destroy_NoDecref(c, hf) ==
    LET h1 == IF NULL # c.workspace THEN Free(hf, c.workspace) ELSE hf
        h2 == IF NULL # c.input_lengths THEN Free(h1, c.input_lengths) ELSE h1
        h3 == IF NULL # c.flat_labels THEN Free(h2, c.flat_labels) ELSE h2
    IN  IF NULL # c.label_lengths THEN Free(h3, c.label_lengths) ELSE h3

\* ctc_context_destroy: frees every non-NULL buffer of the context and
\* drops the reference to the contiguous copy
ctc_context_destroy(c, hf) ==
    LET h1 == IF NULL # c.workspace THEN Free(hf, c.workspace) ELSE hf
        h2 == IF NULL # c.input_lengths THEN Free(h1, c.input_lengths) ELSE h1
        h3 == IF NULL # c.flat_labels THEN Free(h2, c.flat_labels) ELSE h2
        h4 == IF NULL # c.label_lengths THEN Free(h3, c.label_lengths) ELSE h3
    IN  Free(h4, c.activations_copy)

\* variant of ctc_check_result that raises the wrong kind of error
ctc_check_result_MemoryError(retcode, msg, e) ==
    IF CTC_STATUS_SUCCESS # retcode
    THEN [rc |-> 1, err |-> MemoryError]
    ELSE [rc |-> 0, err |-> e]

\* variant of ctc_check_result that sets the error but answers 0
ctc_check_result_NoReturn(retcode, msg, e) ==
    IF CTC_STATUS_SUCCESS # retcode
    THEN [rc |-> 0, err |-> RuntimeError]
    ELSE [rc |-> 0, err |-> e]

\* ctc_check_result: a non-success status sets RuntimeError and answers 1
ctc_check_result(retcode, msg, e) ==
    IF CTC_STATUS_SUCCESS # retcode
    THEN [rc |-> 1, err |-> RuntimeError]
    ELSE [rc |-> 0, err |-> e]

\* create_contiguous_input_lengths: malloc, then copy element by element
create_contiguous_input_lengths(input_lengths_arr, ok) ==
    LET num_elements == Len(input_lengths_arr)
    IN  IF ~ok THEN [ptr |-> NULL, data |-> << >>]
        ELSE [ptr |-> "input_lengths",
              data |-> [elem_idx \in 1 .. num_elements |-> input_lengths_arr[elem_idx]]]

\* variant of the test of line 100 that also drops the label 0
IsLabel_Positive(label) == label > 0

\* the test of line 100: negative values are padding
IsLabel(label) == label >= 0

\* the inner loop of create_flat_labels over the columns of one row;
\* st = [flat, label_length]
RECURSIVE ScanCols(_, _, _, _)
ScanCols(label_matrix, row_idx, col_idx, st) ==
    IF col_idx >= label_matrix.cols THEN st
    ELSE LET label == label_matrix.at[<<row_idx, col_idx>>]
         IN  ScanCols(label_matrix, row_idx, col_idx + 1,
                      IF IsLabel(label)
                      THEN [flat |-> Append(st.flat, label),
                            label_length |-> st.label_length + 1]
                      ELSE st)

\* the outer loop of create_flat_labels over the rows; st = [flat, lens]
RECURSIVE ScanRows(_, _, _)
ScanRows(label_matrix, row_idx, st) ==
    IF row_idx >= label_matrix.rows THEN st
    ELSE LET r == ScanCols(label_matrix, row_idx, 0,
                           [flat |-> st.flat, label_length |-> 0])
         IN  ScanRows(label_matrix, row_idx + 1,
                      [flat |-> r.flat, lens |-> Append(st.lens, r.label_length)])

\* variant of create_flat_labels that frees flat_labels on the failure of the
\* second malloc but leaves the dangling pointer in the context
create_flat_labels_NoReset(label_matrix, c, hf, m, okFlat, okLens) ==
    IF ~okFlat
    THEN [c |-> [c EXCEPT !.flat_labels = NULL], hf |-> hf, m |-> m]
    ELSE IF ~okLens
    THEN [c |-> [c EXCEPT !.flat_labels = "flat_labels", !.label_lengths = NULL],
          hf |-> Free([hf EXCEPT !.heap["flat_labels"] = "live"], "flat_labels"),
          m |-> m]
    ELSE LET r == ScanRows(label_matrix, 0, [flat |-> << >>, lens |-> << >>])
         IN  [c |-> [c EXCEPT !.flat_labels = "flat_labels",
                              !.label_lengths = "label_lengths"],
              hf |-> [hf EXCEPT !.heap["flat_labels"] = "live",
                                !.heap["label_lengths"] = "live"],
              m |-> [m EXCEPT !.flat_labels = r.flat,
                              !.flat_capacity = label_matrix.rows * label_matrix.cols,
                              !.label_lengths = r.lens]]

\* create_flat_labels on the context c, the heap hf and the buffer contents m;
\* okFlat / okLens: whether the two mallocs succeed
create_flat_labels(label_matrix, c, hf, m, okFlat, okLens) ==
    IF ~okFlat
    THEN [c |-> [c EXCEPT !.flat_labels = NULL], hf |-> hf, m |-> m]
    ELSE IF ~okLens
    THEN [c |-> [c EXCEPT !.flat_labels = NULL, !.label_lengths = NULL],
          hf |-> Free([hf EXCEPT !.heap["flat_labels"] = "live"], "flat_labels"),
          m |-> m]
    ELSE LET r == ScanRows(label_matrix, 0, [flat |-> << >>, lens |-> << >>])
         IN  [c |-> [c EXCEPT !.flat_labels = "flat_labels",
                              !.label_lengths = "label_lengths"],
              hf |-> [hf EXCEPT !.heap["flat_labels"] = "live",
                                !.heap["label_lengths"] = "live"],
              m |-> [m EXCEPT !.flat_labels = r.flat,
                              !.flat_capacity = label_matrix.rows * label_matrix.cols,
                              !.label_lengths = r.lens]]

\* PyArray_ZEROS(nd, dims, NPY_FLOAT32, 0): a fresh zeroed array, or NULL
PyArray_ZEROS(nd, dims, ok) ==
    IF ok THEN [id |-> "fresh", shape |-> SubSeq(dims, 1, nd), zeros |-> TRUE]
    ELSE NullArray

\* the test of lines 170-172: the costs output cannot be reused
CostsMismatch(a, cost_size) ==
    \/ a.id = NULL
    \/ Len(a.shape) # 1
    \/ a.shape[1] # cost_size

\* variant of the test of lines 191-195 that forgets the last dimension
GradientsMismatch_NoAlphabet(a, dims) ==
    \/ NULL = a.id
    \/ Len(a.shape) # 3
    \/ a.shape[1] # dims[1]
    \/ a.shape[2] # dims[2]

\* the test of lines 191-195: the gradients output cannot be reused
GradientsMismatch(a, dims) ==
    \/ NULL = a.id
    \/ Len(a.shape) # 3
    \/ a.shape[1] # dims[1]
    \/ a.shape[2] # dims[2]
    \/ a.shape[3] # dims[3]

(* ---------------------------- ctc_cost_cpu ------------------------------ *)
\* the call returns value r from stage s with error indicator e
Return(r, e, s) ==
    /\ pc' = "done"
    /\ ret' = r
    /\ err' = e
    /\ failed' = s

\* the two library entry points: each reads the buffers it is handed
LibCall(fn, bufs, status) ==
    [fn |-> fn, options |-> context.options, status |-> status,
     stale |-> \E b \in bufs : b = NULL \/ heap[b] # "live"]

\* lines 118-119: malloc of the context (unchecked) and ctc_context_init;
\* a failed malloc makes ctc_context_init write through a null pointer
Enter ==
    /\ pc = "start"
    /\ \E ok \in BOOLEAN :
        IF ok
        THEN /\ heap' = [heap EXCEPT !["context"] = "live"]
             /\ context' = ctc_context_init([context EXCEPT !.options = uninit])
             /\ pc' = "contiguous"
        ELSE /\ pc' = "crashed"
             /\ UNCHANGED <<heap, context>>
    /\ UNCHANGED <<args, uninit, frees, mem, locals, out_costs, out_gradients,
                   released, err, ret, trace, libcalls, failed>>

\* lines 121-140: a contiguous view of the activations
Contiguous ==
    /\ pc = "contiguous"
    /\ trace' = Append(trace, "contiguous")
    /\ IF args.in_activations.contiguous
       THEN /\ locals' = [locals EXCEPT !.activations = "in_activations"]
            /\ pc' = "input_lengths"
            /\ UNCHANGED <<context, heap, err, ret, failed>>
       ELSE \E ok \in BOOLEAN :
            IF ok
            THEN /\ context' = [context EXCEPT !.activations_copy = "activations_copy"]
                 /\ heap' = [heap EXCEPT !["activations_copy"] = "live"]
                 /\ locals' = [locals EXCEPT !.activations = "activations_copy"]
                 /\ pc' = "input_lengths"
                 /\ UNCHANGED <<err, ret, failed>>
            ELSE /\ Return(1, MemoryError, "contiguous")
                 /\ UNCHANGED <<context, heap, locals>>
    /\ UNCHANGED <<args, uninit, frees, mem, out_costs, out_gradients, released, libcalls>>

\* lines 142-149: the owned copy of the input lengths
InputLengths ==
    /\ pc = "input_lengths"
    /\ trace' = Append(trace, "input_lengths")
    /\ \E ok \in BOOLEAN :
        LET r == create_contiguous_input_lengths(args.in_input_lengths, ok)
        IN  /\ context' = [context EXCEPT !.input_lengths = r.ptr]
            /\ IF NULL = r.ptr
               THEN /\ Return(1, MemoryError, "input_lengths")
                    /\ UNCHANGED <<heap, mem>>
               ELSE /\ heap' = [heap EXCEPT !["input_lengths"] = "live"]
                    /\ mem' = [mem EXCEPT !.input_lengths = r.data]
                    /\ pc' = "labels"
                    /\ UNCHANGED <<err, ret, failed>>
    /\ UNCHANGED <<args, uninit, frees, locals, out_costs, out_gradients, released, libcalls>>

\* lines 151-162: flat labels and label lengths
Labels ==
    /\ pc = "labels"
    /\ \E okFlat \in BOOLEAN, okLens \in BOOLEAN :
        LET r == create_flat_labels(args.in_labels, context,
                                    [heap |-> heap, frees |-> frees], mem, okFlat, okLens)
        IN  /\ context' = r.c
            /\ mem' = r.m
            /\ IF (NULL = r.c.label_lengths) \/ (NULL = r.c.flat_labels)
               THEN LET d == ctc_context_destroy(r.c, r.hf)
                    IN  /\ heap' = d.heap
                        /\ frees' = d.frees
                        /\ trace' = trace \o <<"labels", "ctc_context_destroy">>
                        /\ Return(1, MemoryError, "labels")
               ELSE /\ heap' = r.hf.heap
                    /\ frees' = r.hf.frees
                    /\ trace' = Append(trace, "labels")
                    /\ pc' = "costs"
                    /\ UNCHANGED <<err, ret, failed>>
    /\ UNCHANGED <<args, uninit, locals, out_costs, out_gradients, released, libcalls>>

\* lines 164-189: the costs output, reused or replaced
Costs ==
    /\ pc = "costs"
    /\ LET minibatch_size == args.in_activations.dims[2]
           alphabet_size == args.in_activations.dims[3]
           cost_size == minibatch_size
       IN  /\ locals' = [locals EXCEPT !.minibatch_size = minibatch_size,
                                       !.alphabet_size = alphabet_size]
           /\ IF CostsMismatch(out_costs, cost_size)
              THEN \E ok \in BOOLEAN :
                   /\ released' = IF out_costs.id # NULL
                                  THEN released \cup {"out_costs"} ELSE released
                   /\ out_costs' = PyArray_ZEROS(1, <<cost_size>>, ok)
                   /\ IF NULL = out_costs'.id
                      THEN LET d == ctc_context_destroy(context, [heap |-> heap, frees |-> frees])
                           IN  /\ heap' = d.heap
                               /\ frees' = d.frees
                               /\ trace' = trace \o <<"costs", "ctc_context_destroy">>
                               /\ Return(1, MemoryError, "costs")
                      ELSE /\ trace' = Append(trace, "costs")
                           /\ pc' = "gradients"
                           /\ UNCHANGED <<heap, frees, err, ret, failed>>
              ELSE /\ trace' = Append(trace, "costs")
                   /\ pc' = "gradients"
                   /\ UNCHANGED <<out_costs, released, heap, frees, err, ret, failed>>
    /\ UNCHANGED <<args, uninit, context, mem, out_gradients, libcalls>>

\* lines 191-215: the gradients output, reused or replaced
Gradients ==
    /\ pc = "gradients"
    /\ IF GradientsMismatch(out_gradients, args.in_activations.dims)
       THEN \E ok \in BOOLEAN :
            /\ released' = IF out_gradients.id # NULL
                           THEN released \cup {"out_gradients"} ELSE released
            /\ out_gradients' = PyArray_ZEROS(3, args.in_activations.dims, ok)
            /\ IF NULL = out_gradients'.id
               THEN LET d == ctc_context_destroy(context, [heap |-> heap, frees |-> frees])
                    IN  /\ heap' = d.heap
                        /\ frees' = d.frees
                        /\ trace' = trace \o <<"gradients", "ctc_context_destroy">>
                        /\ Return(1, MemoryError, "gradients")
               ELSE /\ trace' = Append(trace, "gradients")
                    /\ pc' = "get_workspace_size"
                    /\ UNCHANGED <<heap, frees, err, ret, failed>>
       ELSE /\ trace' = Append(trace, "gradients")
            /\ pc' = "get_workspace_size"
            /\ UNCHANGED <<out_gradients, released, heap, frees, err, ret, failed>>
    /\ UNCHANGED <<args, uninit, context, mem, locals, out_costs, libcalls>>

\* lines 217-226: the workspace size query
GetWorkspaceSize ==
    /\ pc = "get_workspace_size"
    /\ trace' = Append(trace, "get_workspace_size")
    /\ \E status \in Statuses, size \in 0 .. MaxWorkspace :
        LET ctc_error == ctc_check_result(status, "Failed to obtain CTC workspace size!", err)
        IN  /\ libcalls' = Append(libcalls,
                     LibCall("get_workspace_size",
                             {context.label_lengths, context.input_lengths}, status))
            /\ IF ctc_error.rc # 0
               THEN /\ Return(1, ctc_error.err, "get_workspace_size")
                    /\ UNCHANGED locals
               ELSE /\ locals' = [locals EXCEPT !.cpu_workspace_size = size]
                    /\ pc' = "workspace"
                    /\ UNCHANGED <<err, ret, failed>>
    /\ UNCHANGED <<args, uninit, context, heap, frees, mem, out_costs, out_gradients, released>>

\* lines 228-238: the workspace allocation
Workspace ==
    /\ pc = "workspace"
    /\ \E ok \in BOOLEAN :
        /\ context' = [context EXCEPT !.workspace = IF ok THEN "workspace" ELSE NULL]
        /\ IF NULL = context'.workspace
           THEN LET d == ctc_context_destroy(context', [heap |-> heap, frees |-> frees])
                IN  /\ heap' = d.heap
                    /\ frees' = d.frees
                    /\ trace' = trace \o <<"workspace", "ctc_context_destroy">>
                    /\ Return(1, MemoryError, "workspace")
           ELSE /\ heap' = [heap EXCEPT !["workspace"] = "live"]
                /\ trace' = Append(trace, "workspace")
                /\ pc' = "compute_ctc_loss"
                /\ UNCHANGED <<frees, err, ret, failed>>
    /\ UNCHANGED <<args, uninit, mem, locals, out_costs, out_gradients, released, libcalls>>

\* lines 240-246: the loss and gradient computation
ComputeCtcLoss ==
    /\ pc = "compute_ctc_loss"
    /\ trace' = Append(trace, "compute_ctc_loss")
    /\ \E status \in Statuses :
        LET ctc_error == ctc_check_result(status, "Failed to compute CTC loss function!", err)
        IN  /\ libcalls' = Append(libcalls,
                     LibCall("compute_ctc_loss",
                             {context.flat_labels, context.label_lengths,
                              context.input_lengths, context.workspace}, status))
            /\ IF ctc_error.rc # 0
               THEN Return(1, ctc_error.err, "compute_ctc_loss")
               ELSE /\ pc' = "cleanup"
                    /\ UNCHANGED <<err, ret, failed>>
    /\ UNCHANGED <<args, uninit, context, heap, frees, mem, locals, out_costs,
                   out_gradients, released>>

\* lines 248-251: the cleanup of the successful call
Cleanup ==
    /\ pc = "cleanup"
    /\ LET d == ctc_context_destroy(context, [heap |-> heap, frees |-> frees])
           f == Free(d, "context")
       IN  /\ heap' = f.heap
           /\ frees' = f.frees
    /\ trace' = trace \o <<"ctc_context_destroy", "free_context">>
    /\ Return(0, err, "none")
    /\ UNCHANGED <<args, uninit, context, mem, locals, out_costs, out_gradients,
                   released, libcalls>>

Next ==
    \/ Enter
    \/ Contiguous
    \/ InputLengths
    \/ Labels
    \/ Costs
    \/ Gradients
    \/ GetWorkspaceSize
    \/ Workspace
    \/ ComputeCtcLoss
    \/ Cleanup

(* ---------------------------- initial states --------------------------- *)
\* the state at the entry of a call made with one of the given argument
\* lists, the context's memory holding one of the given garbage values
InitWith(Calls, Garbage) ==
    /\ pc = "start"
    /\ args \in Calls
    /\ out_costs = args.out_costs
    /\ out_gradients = args.out_gradients
    /\ uninit \in Garbage
    /\ context = [options |-> [loc |-> NULL, num_threads |-> 0, blank_label |-> 0],
                  workspace |-> NULL, input_lengths |-> NULL, flat_labels |-> NULL,
                  label_lengths |-> NULL, activations_copy |-> NULL]
    /\ heap = [b \in Blocks |-> "unallocated"]
    /\ frees = [b \in Blocks |-> 0]
    /\ mem = [input_lengths |-> << >>, flat_labels |-> << >>, flat_capacity |-> 0,
              label_lengths |-> << >>]
    /\ locals = [activations |-> NULL, minibatch_size |-> 0, alphabet_size |-> 0,
                 cpu_workspace_size |-> 0]
    /\ released = {}
    /\ err = NoError
    /\ ret = -1
    /\ trace = << >>
    /\ libcalls = << >>
    /\ failed = "none"

\* activations of shape [T, B, A], contiguous or not
AllActivations == [contiguous : BOOLEAN, dims : [1 .. 3 -> Dims]]
\* every batch element uses all T time steps
FullLengths(a) == [i \in 1 .. a.dims[2] |-> a.dims[1]]
\* one label per batch element, no padding
PlainLabels(a) == [rows |-> a.dims[2], cols |-> 1,
                   at |-> [p \in (0 .. a.dims[2] - 1) \X {0} |-> 0]]
\* memory that happens to be zero
ZeroedOptions == [loc |-> CTC_CPU, num_threads |-> 0, blank_label |-> 0]

Call(a, lm, c, g) ==
    [in_activations |-> a, in_labels |-> lm, in_input_lengths |-> FullLengths(a),
     out_costs |-> c, out_gradients |-> g]

\* calls that vary the activations and whether the outputs are preallocated
ControlCalls ==
    UNION { { Call(a, PlainLabels(a), c, g) :
                c \in {NullArray, CallerArray(<<a.dims[2]>>)},
                g \in {NullArray, CallerArray(a.dims)} }
            : a \in AllActivations }

\* calls that vary the label matrix
LabelCalls ==
    { Call([contiguous |-> TRUE, dims |-> [i \in 1 .. 3 |-> 1]], lm, NullArray, NullArray) :
        lm \in LabelMatrices }

\* calls that vary the shapes of the activations and of the given outputs
OutputCalls ==
    UNION { { Call(a, PlainLabels(a), c, g) :
                c \in {NullArray} \cup { CallerArray(sh) : sh \in Shapes(0, 2) },
                g \in {NullArray} \cup { CallerArray(sh) : sh \in Shapes(2, 3) } }
            : a \in { x \in AllActivations : x.contiguous } }

Init == InitWith(ControlCalls, OptionValues)
InitLabels == InitWith(LabelCalls, {ZeroedOptions})
InitOutputs == InitWith(OutputCalls, {ZeroedOptions})

Spec == Init /\ [][Next]_vars
SpecLabels == InitLabels /\ [][Next]_vars
SpecOutputs == InitOutputs /\ [][Next]_vars

(* ---------------------------- properties ------------------------------- *)
Stages == <<"contiguous", "input_lengths", "labels", "costs", "gradients",
            "get_workspace_size", "workspace", "compute_ctc_loss">>
StageSet == { Stages[i] : i \in DOMAIN Stages }
IsStage(e) == e \in StageSet
\* the stages executed so far, in order
Executed == SelectSeq(trace, IsStage)
\* stage s was executed and did not fail
Passed(s) == (\E i \in DOMAIN trace : trace[i] = s) /\ failed # s
Called(fn) == { i \in DOMAIN libcalls : libcalls[i].fn = fn }
Matches(a, shape) == a.id # NULL /\ a.shape = shape
ConfiguredOptions == [loc |-> CTC_CPU, num_threads |-> 1, blank_label |-> 0]

\* C1: when the call returns, on any exit path, no owned buffer
\* (input_lengths, flat_labels, label_lengths, workspace) is still allocated
\* and the reference to activations_copy is no longer held.
C1_AllOwnedReleasedOnReturn ==
    pc = "done" => \A b \in Owned : heap[b] # "live"

\* C2: when compute_ctc_loss answers a non-success status, the workspace and
\* the other owned buffers are released before the error is returned.
C2_ComputeFailureReleases ==
    (pc = "done" /\ failed = "compute_ctc_loss")
        => /\ heap["workspace"] = "freed"
           /\ \A b \in Owned \ {"workspace"} : heap[b] # "live"

\* C3: when the workspace allocation fails, flat_labels, label_lengths,
\* input_lengths and the contiguous copy (when one was made) have been
\* released exactly once, the error is MemoryError, the call returns 1 and
\* compute_ctc_loss was not called.
C3_WorkspaceAllocFailure ==
    failed = "workspace"
        => /\ pc = "done" /\ ret = 1 /\ err = MemoryError
           /\ \A b \in {"flat_labels", "label_lengths", "input_lengths"} :
                  heap[b] = "freed" /\ frees[b] = 1
           /\ IF args.in_activations.contiguous
              THEN heap["activations_copy"] = "unallocated"
              ELSE heap["activations_copy"] = "freed" /\ frees["activations_copy"] = 1
           /\ heap["workspace"] = "unallocated"
           /\ Called("compute_ctc_loss") = {}
           /\ Cardinality(Called("get_workspace_size")) = 1

C3_Witness ==
    /\ failed = "workspace"
    /\ ~args.in_activations.contiguous
    /\ heap["activations_copy"] = "freed"
    /\ heap["flat_labels"] = "freed"

\* the entries of a label matrix in row-major order
RowMajor(lm) ==
    [i \in 1 .. lm.rows * lm.cols |-> lm.at[<<(i - 1) \div lm.cols, (i - 1) % lm.cols>>]]
NonNegative(v) == v >= 0
RECURSIVE SumSeq(_)
SumSeq(q) == IF q = << >> THEN 0 ELSE Head(q) + SumSeq(Tail(q))

\* C4: after create_flat_labels succeeded, label_lengths[r] is the number of
\* entries >= 0 of row r, the number of flat labels is the sum of the
\* label lengths, the count of entries >= 0 of the matrix and at most
\* rows * cols, and flat_labels is the row-major sequence of the entries >= 0.
C4_FlatLabels ==
    Passed("labels")
        => LET lm == args.in_labels
           IN  /\ Len(mem.label_lengths) = lm.rows
               /\ \A r \in 0 .. lm.rows - 1 :
                      mem.label_lengths[r + 1] =
                          Cardinality({ c \in 0 .. lm.cols - 1 : lm.at[<<r, c>>] >= 0 })
               /\ Len(mem.flat_labels) = SumSeq(mem.label_lengths)
               /\ Len(mem.flat_labels) = Cardinality({ p \in DOMAIN lm.at : lm.at[p] >= 0 })
               /\ Len(mem.flat_labels) <= mem.flat_capacity
               /\ mem.flat_capacity = lm.rows * lm.cols
               /\ mem.flat_labels = SelectSeq(RowMajor(lm), NonNegative)

\* a 2 x 2 matrix whose first row is padding (-2 and -1) and whose second
\* row holds the labels 1 and 0
C4_Witness ==
    /\ Passed("labels")
    /\ args.in_labels.rows = 2 /\ args.in_labels.cols = 2
    /\ args.in_labels.at[<<0, 0>>] = -2 /\ args.in_labels.at[<<0, 1>>] = -1
    /\ mem.label_lengths = <<0, 2>>
    /\ mem.flat_labels = <<1, 0>>

\* C5: once the stage of an output has passed, a given output of exactly the
\* required shape is still the same array and was not released; otherwise
\* the given array (if any) was released and the handle is a fresh zeroed
\* array of the required shape.  On a successful return costs has shape [B]
\* and gradients the shape [T, B, A] of the activations.
C5_OutputsReusedOrReplaced ==
    LET dims == args.in_activations.dims
    IN  /\ Passed("costs") =>
               IF Matches(args.out_costs, <<dims[2]>>)
               THEN out_costs = args.out_costs /\ "out_costs" \notin released
               ELSE /\ out_costs.id = "fresh" /\ out_costs.zeros
                    /\ out_costs.shape = <<dims[2]>>
                    /\ (args.out_costs.id # NULL <=> "out_costs" \in released)
        /\ Passed("gradients") =>
               IF Matches(args.out_gradients, dims)
               THEN out_gradients = args.out_gradients /\ "out_gradients" \notin released
               ELSE /\ out_gradients.id = "fresh" /\ out_gradients.zeros
                    /\ out_gradients.shape = dims
                    /\ (args.out_gradients.id # NULL <=> "out_gradients" \in released)
        /\ ret = 0 => out_costs.shape = <<dims[2]>> /\ out_gradients.shape = dims

\* costs given with the right shape and kept; gradients given with a shape
\* that differs in the last dimension only, and replaced
C5_Witness ==
    /\ ret = 0
    /\ out_costs.id = "caller"
    /\ args.out_gradients.id = "caller"
    /\ Len(args.out_gradients.shape) = 3
    /\ args.out_gradients.shape[1] = args.in_activations.dims[1]
    /\ args.out_gradients.shape[2] = args.in_activations.dims[2]
    /\ args.out_gradients.shape[3] # args.in_activations.dims[3]
    /\ out_gradients.id = "fresh"
    /\ released = {"out_gradients"}

\* C6: the options handed to get_workspace_size and to compute_ctc_loss are
\* the configured ones: CTC_CPU, one thread, every other field zero.
C6_LibraryOptionsConfigured ==
    \A i \in DOMAIN libcalls : libcalls[i].options = ConfiguredOptions

\* C7: the call returns 1 exactly when an error is set; the error is
\* RuntimeError exactly when the last library call answered a non-success
\* status and MemoryError for every other failure; it returns 0 exactly when
\* every stage ran and compute_ctc_loss answered success.
C7_ReturnMatchesError ==
    pc = "done"
        => LET n == Len(libcalls)
               libFailed == n > 0 /\ libcalls[n].status # CTC_STATUS_SUCCESS
           IN  /\ ret \in {0, 1}
               /\ ret = 1 <=> err # NoError
               /\ err = RuntimeError <=> libFailed
               /\ err = RuntimeError
                      => failed = (IF n = 1 THEN "get_workspace_size" ELSE "compute_ctc_loss")
               /\ err = MemoryError
                      <=> failed \in {"contiguous", "input_lengths", "labels", "costs",
                                      "gradients", "workspace"}
               /\ ret = 0 <=> /\ Executed = Stages
                              /\ \A i \in DOMAIN libcalls : libcalls[i].status = CTC_STATUS_SUCCESS
               /\ ret = 0 => failed = "none"

C7_Witness ==
    /\ pc = "done"
    /\ ret = 1
    /\ err = RuntimeError
    /\ failed = "compute_ctc_loss"

\* C8: the stages run in the fixed order, each at most once; the library is
\* called at most once per entry point, compute_ctc_loss only after
\* get_workspace_size answered success and the workspace was allocated; the
\* failing stage is the last stage executed.
C8_StageOrder ==
    /\ Executed = SubSeq(Stages, 1, Len(Executed))
    /\ Cardinality(Called("get_workspace_size")) <= 1
    /\ Cardinality(Called("compute_ctc_loss")) <= 1
    /\ Called("compute_ctc_loss") # {}
           => /\ Len(libcalls) = 2
              /\ libcalls[1].fn = "get_workspace_size"
              /\ libcalls[1].status = CTC_STATUS_SUCCESS
              /\ libcalls[2].fn = "compute_ctc_loss"
              /\ Passed("workspace")
              /\ heap["workspace"] # "unallocated"
    /\ failed # "none"
           => /\ pc = "done"
              /\ Executed # << >>
              /\ Executed[Len(Executed)] = failed
              /\ \A i \in DOMAIN libcalls :
                     libcalls[i].status # CTC_STATUS_SUCCESS => i = Len(libcalls)

C8_Witness ==
    /\ failed = "get_workspace_size"
    /\ pc = "done"
    /\ Len(libcalls) = 1
    /\ Executed = SubSeq(Stages, 1, 6)

\* C9: when the call returns, the context record obtained by malloc has been
\* freed exactly once.
C9_ContextFreedOnce ==
    pc = "done" => heap["context"] = "freed" /\ frees["context"] = 1

\* C10: no owned buffer is released twice, the library is never handed a
\* released buffer, ctc_context_destroy runs at most once and no stage
\* follows it; when label_lengths cannot be allocated, flat_labels has been
\* freed once by create_flat_labels and reset to NULL.
C10_NoDoubleFreeNoUseAfterFree ==
    LET destroys == { i \in DOMAIN trace : trace[i] = "ctc_context_destroy" }
    IN  /\ \A b \in Owned : frees[b] <= 1
        /\ \A i \in DOMAIN libcalls : ~libcalls[i].stale
        /\ Cardinality(destroys) <= 1
        /\ \A i \in destroys : \A j \in DOMAIN trace : j > i => ~IsStage(trace[j])
        /\ (failed = "labels" /\ heap["flat_labels"] = "freed")
               => context.flat_labels = NULL /\ frees["flat_labels"] = 1

\* the label_lengths allocation failed after flat_labels was allocated
C10_Witness ==
    /\ failed = "labels"
    /\ heap["flat_labels"] = "freed"
    /\ heap["label_lengths"] = "unallocated"
    /\ frees["input_lengths"] = 1

====
